---- MODULE Spec2Model ----
(***************************************************************************)
(* Model of rllib/algorithms/dt/segmentation_buffer.py: the episode store  *)
(* of SegmentationBuffer (add / _add_single) and its segment sampler       *)
(* (sample / _sample_single).                                              *)
(* MultiAgentSegmentationBuffer routes by policy id; the last part models  *)
(* rllib/algorithms/dt/dt_torch_policy.py at inference: the input_dict of  *)
(* a rollout and what action_distribution_fn hands to the model.           *)
(*                                                                         *)
(* A SampleBatch is a record of equally long columns.  Python indices are  *)
(* 0-based and are kept 0-based in every recorded value; only the access   *)
(* into a TLA+ sequence adds 1.                                            *)
(***************************************************************************)
EXTENDS Integers, Sequences, FiniteSets, TLC

\* ---------------------------------------------------------------- bounds
MaxCapacity == 2      \* capacity ranges over 1..MaxCapacity
MaxSeqLen == 3        \* max_seq_len ranges up to MaxSeqLen
MaxEpLen == 3         \* max_ep_len, and the steps of a rollout

\* The workload: two distinguishable episode ids, one or two episodes in the
\* batch of one add() call, one or two segments asked of one sample() call.
EpsIds == 0..1
AddSizes == 1..2
BatchSizes == 1..2

VARIABLES
    capacity,      \* self.capacity
    max_seq_len,   \* self.max_seq_len
    max_ep_len,    \* self.max_ep_len
    buffer,        \* self._buffer : list of episodes
    buffers,       \* MultiAgentSegmentationBuffer.buffers : policy id -> store
    threads,       \* the threads that call one store: where each one stands
    target_return, \* DTTorchPolicy: self.config["target_return"]
    input_dict,    \* the input_dict the rollout loop holds between calls
    obs_batch,     \* action_distribution_fn's obs_batch, as it leaves it
    extra,         \* what extra_action_out returned for the last action
    rollout,       \* the rollout loop: where it stands, the rewards so far
    call,          \* the public call that has just run, "idle" between calls
    ret,           \* what that call returned (a batch of segments for sample)
    trace,         \* the local values of each _add_single / _sample_single run
    err            \* the exception the call raised, "none" if it returned

\* The variables of the policy at inference.
inference == <<target_return, input_dict, obs_batch, extra, rollout>>

vars ==
    <<capacity, max_seq_len, max_ep_len, buffer, buffers, threads,
      target_return, input_dict, obs_batch, extra, rollout,
      call, ret, trace, err>>

\* No policy is part of the run.
NoInference ==
    /\ target_return = 0
    /\ input_dict = <<>>
    /\ obs_batch = <<>>
    /\ extra = <<>>
    /\ rollout = <<>>

Min(a, b) == IF a < b THEN a ELSE b
Max(a, b) == IF a > b THEN a ELSE b

\* ------------------------------------------------------- numpy and python
\* Variant: the upper bound taken as inclusive, as random.randint does.
RandInt_Inclusive(low, high) == low..high

\* np.random.randint(low, high): an integer in [low, high); raises
\* ValueError when low >= high, i.e. when this set is empty.
RandInt(low, high) == low..(high - 1)

\* Python's normalisation of one slice bound against a sequence of length n.
PyIndex(i, n) == IF i < 0 THEN Max(i + n, 0) ELSE Min(i, n)

\* s[a:b] for a Python sequence / numpy array s.
PySlice(s, a, b) == SubSeq(s, PyIndex(a, Len(s)) + 1, PyIndex(b, Len(s)))

\* np.zeros(n), np.ones(n), np.arange(a, b)
Zeros(n) == [i \in 1..n |-> 0]
Ones(n) == [i \in 1..n |-> 1]

\* Variant: the range starts at 0 whatever a is, np.arange(b - a).
Arange_FromZero(a, b) == IF b > a THEN [i \in 1..(b - a) |-> i - 1] ELSE <<>>

\* np.arange(a, b)
Arange(a, b) == IF b > a THEN [i \in 1..(b - a) |-> a + i - 1] ELSE <<>>

\* ------------------------------------------------------------ SampleBatch
Columns == {"obs", "actions", "returns_to_go", "eps_id"}

EmptyBatch == [k \in Columns |-> <<>>]

\* SampleBatch.env_steps()
EnvSteps(b) == Len(b.obs)

\* SampleBatch.__getitem__ with a slice: every column is sliced alike.
BatchSlice(b, a, z) == [k \in Columns |-> PySlice(b[k], a, z)]

\* concat_samples of two batches: every column is concatenated.
Concat2(b1, b2) == [k \in Columns |-> b1[k] \o b2[k]]

RECURSIVE ConcatSamples(_)
ConcatSamples(bs) ==
    IF bs = <<>> THEN EmptyBatch
    ELSE Concat2(Head(bs), ConcatSamples(Tail(bs)))

\* Length of the run of rows at the head of b that carry the eps_id of row 0.
RECURSIVE RunLen(_, _)
RunLen(ids, n) ==
    IF n < Len(ids) /\ ids[n + 1] = ids[1] THEN RunLen(ids, n + 1) ELSE n

\* SampleBatch.split_by_episode(): cut wherever eps_id changes.
RECURSIVE SplitByEpisode(_)
SplitByEpisode(b) ==
    IF EnvSteps(b) = 0 THEN <<>>
    ELSE LET n == RunLen(b.eps_id, 1)
         IN  <<BatchSlice(b, 0, n)>>
                 \o SplitByEpisode(BatchSlice(b, n, EnvSteps(b)))

\* tests/_generate_episode_batch, with values that differ from step to step
\* so that a misplaced slice is visible.
GenEpisode(id, n) ==
    [obs           |-> [i \in 1..n |-> 10 * id + (i - 1)],
     actions       |-> [i \in 1..n |-> 100 + 10 * id + (i - 1)],
     returns_to_go |-> [i \in 1..n |-> 200 + 10 * id + (i - 1)],
     eps_id        |-> [i \in 1..n |-> id]]

\* The generated episodes: every id, every length up to one step past
\* max_ep_len (the over-long episode that _add_single truncates).
EpisodeSpecs == EpsIds \X (1..(max_ep_len + 1))

\* The batches a producer hands to add(): the concatenation of one or more
\* complete episodes, neighbours carrying different episode ids.
InputBatches ==
    {ConcatSamples([i \in DOMAIN sp |-> GenEpisode(sp[i][1], sp[i][2])]) :
        sp \in UNION {{s \in [1..n -> EpisodeSpecs] :
                          \A i \in 1..(n - 1) : s[i][1] # s[i + 1][1]} :
                      n \in AddSizes}}

\* ------------------------------------------------------------------ add
\* Variant: the last max_ep_len steps are kept, episode[-self.max_ep_len :].
Truncate_KeepLast(episode) ==
    IF EnvSteps(episode) > max_ep_len
    THEN BatchSlice(episode, -max_ep_len, EnvSteps(episode))
    ELSE episode

\* Variant: the episode is stored as it came, whatever its length.
Truncate_Never(episode) == episode

\* _add_single, lines 50-57: an episode longer than max_ep_len is cut to
\* episode[: self.max_ep_len].
Truncate(episode) ==
    IF EnvSteps(episode) > max_ep_len
    THEN BatchSlice(episode, 0, max_ep_len)
    ELSE episode

\* Variant: the capacity test is <=, so a full list is appended to.
AddSingle_AppendWhenFull(buf, episode) ==
    IF Len(buf) <= capacity
    THEN {[buf |-> Append(buf, Truncate(episode)), slot |-> Len(buf)]}
    ELSE {[buf  |-> [buf EXCEPT ![replace_ind + 1] = Truncate(episode)],
           slot |-> replace_ind] : replace_ind \in RandInt(0, capacity)}

\* Variant: a full list drops its oldest episode and appends the new one.
AddSingle_Fifo(buf, episode) ==
    IF Len(buf) < capacity
    THEN {[buf |-> Append(buf, Truncate(episode)), slot |-> Len(buf)]}
    ELSE {[buf  |-> Append(Tail(buf), Truncate(episode)),
           slot |-> Len(buf) - 1]}

\* Variant: a full list keeps what it has and drops the new episode.
AddSingle_DropWhenFull(buf, episode) ==
    IF Len(buf) < capacity
    THEN {[buf |-> Append(buf, Truncate(episode)), slot |-> Len(buf)]}
    ELSE {[buf |-> buf, slot |-> replace_ind] :
              replace_ind \in RandInt(0, capacity)}

\* Variant: below capacity the episode is put in front, list.insert(0, _).
AddSingle_Prepend(buf, episode) ==
    IF Len(buf) < capacity
    THEN {[buf |-> <<Truncate(episode)>> \o buf, slot |-> 0]}
    ELSE {[buf  |-> [buf EXCEPT ![replace_ind + 1] = Truncate(episode)],
           slot |-> replace_ind] : replace_ind \in RandInt(0, capacity)}

\* _add_single, lines 46-64, on the list buf: the outcomes of one run, one
\* for each value np.random.randint(0, self.capacity) can return when the
\* list is full.  slot is the index the episode was written to.
AddSingle(buf, episode) ==
    IF Len(buf) < capacity
    THEN {[buf |-> Append(buf, Truncate(episode)), slot |-> Len(buf)]}
    ELSE {[buf  |-> [buf EXCEPT ![replace_ind + 1] = Truncate(episode)],
           slot |-> replace_ind] : replace_ind \in RandInt(0, capacity)}

\* add, lines 42-44: the loop over the split episodes from the k-th on, one
\* _add_single each; the outcomes are the final list and, for each run, the
\* episode it was given and the slot it wrote.
RECURSIVE AddLoop(_, _, _)
AddLoop(buf, episodes, k) ==
    IF k > Len(episodes) THEN {[buf |-> buf, runs |-> <<>>]}
    ELSE UNION {{[buf  |-> rest.buf,
                  runs |-> <<[episode |-> episodes[k], slot |-> one.slot]>>
                               \o rest.runs] :
                    rest \in AddLoop(one.buf, episodes, k + 1)} :
                one \in AddSingle(buf, episodes[k])}

Idle == [op |-> "idle"]

Add ==
    /\ call = Idle
    /\ \E batch \in InputBatches :
        \E done \in AddLoop(buffer, SplitByEpisode(batch), 1) :
            /\ buffer' = done.buf
            /\ call' = [op |-> "add", batch |-> batch]
            /\ ret' = <<>>
            /\ trace' = done.runs
            /\ err' = "none"
            /\ UNCHANGED <<capacity, max_seq_len, max_ep_len, buffers,
                           threads, inference>>

\* --------------------------------------------------------------- sample
\* Variant: the offset is max_seq_len whatever the episode length.
Offset_SeqLen(ep_len) == max_seq_len

\* _sample_single, line 94
Offset(ep_len) == Min(max_seq_len, ep_len)

\* Variant: the lower bound without its + 1.
StartRange_FromMinusOffset(ep_len) ==
    RandInt(-Offset(ep_len), ep_len - Offset(ep_len) + 1)

\* Variant: no negative start index is drawn.
StartRange_NonNegative(ep_len) ==
    RandInt(0, ep_len - Offset(ep_len) + 1)

\* Variant: both bounds without their + 1.
StartRange_Unshifted(ep_len) ==
    RandInt(-Offset(ep_len), ep_len - Offset(ep_len))

\* _sample_single, line 98: the values np.random.randint can return for si.
StartRange(ep_len) ==
    RandInt(-Offset(ep_len) + 1, ep_len - Offset(ep_len) + 1)

\* Variant: the start index is used as drawn.
ClampStart_AsDrawn(si) == si

\* Variant: the start index is clamped at 1.
ClampStart_ToOne(si) == Max(si, 1)

\* _sample_single, line 101
ClampStart(si) == Max(si, 0)

\* Variant: the returns-to-go are sliced like the observations.
RtgEnd_NoExtra(ei) == ei

\* _sample_single, line 106: the end of the returns-to-go slice.
RtgEnd(ei) == ei + 1

\* Variant: the returns-to-go are never back-padded.
BackPad_Never(returns_to_go, length) == returns_to_go

\* _sample_single, lines 113-116: one 0 is appended to the returns-to-go
\* when the slice is no longer than the observations.
BackPad(returns_to_go, length) ==
    IF Len(returns_to_go) = length
    THEN returns_to_go \o Zeros(1)
    ELSE returns_to_go

\* Variant: the zeros are concatenated after x.
FrontPad_AtBack(x, pad_length) == x \o Zeros(pad_length)

\* Variant: the front is filled with copies of the first row,
\* np.pad(x, (pad_length, 0), mode="edge").
FrontPad_EdgeValue(x, pad_length) == [i \in 1..pad_length |-> x[1]] \o x

\* _sample_single, lines 121-140: np.concatenate([np.zeros(pad_length), x])
FrontPad(x, pad_length) == Zeros(pad_length) \o x

\* _sample_single, lines 88-156, for the draws buffer_ind and si_draw.
\* The record holds the five returned arrays and the locals of the run.
SampleSingle(buf, buffer_ind, si_draw) ==
    LET episode == buf[buffer_ind + 1]
        ep_len  == Len(episode.obs)
        offset  == Offset(ep_len)
        ei      == si_draw + offset
        si      == ClampStart(si_draw)
        obs0    == PySlice(episode.obs, si, ei)
        act0    == PySlice(episode.actions, si, ei)
        rtg0    == PySlice(episode.returns_to_go, si, RtgEnd(ei))
        length  == Len(obs0)
        t0      == Arange(si, si + length)
        masks0  == Ones(length)
        rtg1    == BackPad(rtg0, length)
        pad_length == max_seq_len - length
        padded  == pad_length > 0
        obs     == IF padded THEN FrontPad(obs0, pad_length) ELSE obs0
        actions == IF padded THEN FrontPad(act0, pad_length) ELSE act0
        rtg     == IF padded THEN FrontPad(rtg1, pad_length) ELSE rtg1
        t       == IF padded THEN FrontPad(t0, pad_length) ELSE t0
        masks   == IF padded THEN FrontPad(masks0, pad_length) ELSE masks0
    IN  [segment |-> [obs |-> obs, actions |-> actions, returns_to_go |-> rtg,
                      t |-> t, attention_masks |-> masks],
         locals  |-> [buffer_ind |-> buffer_ind, ep_len |-> ep_len,
                      si_draw |-> si_draw, ei |-> ei, si |-> si,
                      length |-> length, pad_length |-> pad_length,
                      back_padded |-> Len(rtg0) = length],
         asserts |-> /\ Len(obs) = max_seq_len
                     /\ Len(actions) = max_seq_len
                     /\ Len(t) = max_seq_len
                     /\ Len(masks) = max_seq_len
                     /\ Len(rtg) = max_seq_len + 1]

\* Variant: the index is drawn below capacity, not below the length.
IndexRange_BelowCapacity(buf) == RandInt(0, capacity)

\* _sample_single, line 88: the values np.random.randint(0, len(self._buffer))
\* can return for buffer_ind.
IndexRange(buf) == RandInt(0, Len(buf))

\* The pairs (buffer_ind, si) one _sample_single run can draw on buf:
\* line 88, then line 98 on the episode that line 89 reads.
Draws(buf) ==
    UNION {{<<i, si>> : si \in StartRange(Len(buf[i + 1].obs))} :
              i \in IndexRange(buf)}

\* Variant: one pair of draws is made for the call and used by every run.
SampleOutcomes_OneDraw(buf, batch_size) ==
    IF IndexRange(buf) = {}
    THEN {[err |-> "ValueError", ret |-> <<>>, trace |-> <<>>]}
    ELSE {LET run == SampleSingle(buf, d[1], d[2])
          IN  IF run.asserts
              THEN [err   |-> "none",
                    ret   |-> [k \in 1..batch_size |-> run.segment],
                    trace |-> [k \in 1..batch_size |-> run.locals]]
              ELSE [err |-> "AssertionError", ret |-> <<>>, trace |-> <<>>] :
          d \in Draws(buf)}

\* Variant: the segments are stacked in an order the call picks on its own
\* (a shuffle of the runs), so the draws no longer decide the batch.
SampleOutcomes_Shuffled(buf, batch_size) ==
    IF IndexRange(buf) = {}
    THEN {[err |-> "ValueError", ret |-> <<>>, trace |-> <<>>]}
    ELSE {LET runs == [k \in 1..batch_size |->
                         SampleSingle(buf, c[1][k][1], c[1][k][2])]
          IN  [err   |-> "none",
               ret   |-> [k \in 1..batch_size |-> runs[c[2][k]].segment],
               trace |-> [k \in 1..batch_size |-> runs[k].locals]] :
          c \in [1..batch_size -> Draws(buf)]
                 \X {p \in [1..batch_size -> 1..batch_size] :
                        \A i, j \in 1..batch_size : p[i] = p[j] => i = j}}

\* sample, lines 81-82, on the list buf: the outcomes of batch_size runs of
\* _sample_single, stacked by concat_samples along the leading axis.  The
\* first run on an empty list calls np.random.randint(0, 0), which raises
\* ValueError; a buffer_ind past the end of the list raises IndexError.
SampleOutcomes(buf, batch_size) ==
    IF IndexRange(buf) = {}
    THEN {[err |-> "ValueError", ret |-> <<>>, trace |-> <<>>]}
    ELSE IF \E i \in IndexRange(buf) : i + 1 \notin DOMAIN buf
    THEN {[err |-> "IndexError", ret |-> <<>>, trace |-> <<>>]}
    ELSE {LET runs == [k \in 1..batch_size |->
                         SampleSingle(buf, ds[k][1], ds[k][2])]
          IN  IF \A k \in 1..batch_size : runs[k].asserts
              THEN [err   |-> "none",
                    ret   |-> [k \in 1..batch_size |-> runs[k].segment],
                    trace |-> [k \in 1..batch_size |-> runs[k].locals]]
              ELSE [err |-> "AssertionError", ret |-> <<>>, trace |-> <<>>] :
          ds \in [1..batch_size -> Draws(buf)]}

\* Variant: the episode the first segment was cut from is taken out of the
\* list, self._buffer.pop(buffer_ind).
Sample_Consuming ==
    /\ call = Idle
    /\ \E batch_size \in BatchSizes :
        \E out \in SampleOutcomes(buffer, batch_size) :
            /\ call' = [op |-> "sample", batch_size |-> batch_size]
            /\ err' = out.err
            /\ ret' = out.ret
            /\ trace' = out.trace
            /\ buffer' = IF out.err = "none"
                         THEN SubSeq(buffer, 1, out.trace[1].buffer_ind)
                              \o SubSeq(buffer, out.trace[1].buffer_ind + 2,
                                        Len(buffer))
                         ELSE buffer
            /\ UNCHANGED <<capacity, max_seq_len, max_ep_len, buffers,
                           threads, inference>>

Sample ==
    /\ call = Idle
    /\ \E batch_size \in BatchSizes :
        \E out \in SampleOutcomes(buffer, batch_size) :
            /\ call' = [op |-> "sample", batch_size |-> batch_size]
            /\ err' = out.err
            /\ ret' = out.ret
            /\ trace' = out.trace
            /\ UNCHANGED <<capacity, max_seq_len, max_ep_len, buffer, buffers,
                           threads, inference>>

\* ------------------------------------------------------- specification
\* __init__, lines 30-34
Init ==
    /\ capacity \in 1..MaxCapacity
    /\ max_seq_len \in 1..MaxSeqLen
    /\ max_ep_len \in 1..MaxEpLen
    /\ buffer = <<>>
    /\ buffers = <<>>
    /\ threads = <<>>
    /\ NoInference
    /\ call = Idle
    /\ ret = <<>>
    /\ trace = <<>>
    /\ err = "none"

\* The caller takes the result (or the exception) of the call and goes on to
\* its next call; the store keeps no reference to what it returned.
Return ==
    /\ call # Idle
    /\ call' = Idle
    /\ ret' = <<>>
    /\ trace' = <<>>
    /\ err' = "none"
    /\ UNCHANGED <<capacity, max_seq_len, max_ep_len, buffer, buffers,
                   threads, inference>>

Next == Add \/ Sample \/ Return

Spec == Init /\ [][Next]_vars

\* __init__, lines 30-34, for SegmentationBuffer(1, 5, 5): a store of one
\* episode, segments of 5 steps, episodes of up to 5 steps.
InitExamples ==
    /\ capacity = 1
    /\ max_seq_len = 5
    /\ max_ep_len = 5
    /\ buffer = <<>>
    /\ buffers = <<>>
    /\ threads = <<>>
    /\ NoInference
    /\ call = Idle
    /\ ret = <<>>
    /\ trace = <<>>
    /\ err = "none"

SpecExamples == InitExamples /\ [][Next]_vars

\* --------------------------------------- one episode in, one segment out
\* The same store under the lightest workload, which reaches every store and
\* every single segment: add() with a batch of one complete episode and
\* sample(1).

\* add, lines 36-44, with a batch that holds one episode.
AddEpisode ==
    /\ call = Idle
    /\ \E sp \in EpisodeSpecs :
        LET batch == GenEpisode(sp[1], sp[2])
        IN  \E done \in AddLoop(buffer, SplitByEpisode(batch), 1) :
                /\ buffer' = done.buf
                /\ call' = [op |-> "add", batch |-> batch]
                /\ ret' = <<>>
                /\ trace' = done.runs
                /\ err' = "none"
                /\ UNCHANGED <<capacity, max_seq_len, max_ep_len, buffers,
                               threads, inference>>

\* sample, lines 66-82, with batch_size = 1.
SampleSegment ==
    /\ call = Idle
    /\ \E out \in SampleOutcomes(buffer, 1) :
            /\ call' = [op |-> "sample", batch_size |-> 1]
            /\ err' = out.err
            /\ ret' = out.ret
            /\ trace' = out.trace
            /\ UNCHANGED <<capacity, max_seq_len, max_ep_len, buffer, buffers,
                           threads, inference>>

NextSegments == AddEpisode \/ SampleSegment \/ Return

SpecSegments == Init /\ [][NextSegments]_vars

\* Variant: a segment length above the episode length is reported.
Warnings_SeqLenChecked(cap, seq_len, ep_len) ==
    IF seq_len > ep_len THEN <<"max_seq_len > max_ep_len">> ELSE <<>>

\* __init__, lines 18-34: what the constructor reports about its arguments.
\* It assigns the three values and the empty list and does nothing else: no
\* comparison, no warning, no exception.
Warnings(cap, seq_len, ep_len) == <<>>

\* The state right after the constructor call, seen as a call like the
\* others: its arguments, what it raised and what it reported.
InitConstructed ==
    /\ capacity \in 1..MaxCapacity
    /\ max_seq_len \in 1..MaxSeqLen
    /\ max_ep_len \in 1..MaxEpLen
    /\ buffer = <<>>
    /\ buffers = <<>>
    /\ threads = <<>>
    /\ NoInference
    /\ call = [op |-> "init"]
    /\ ret = <<>>
    /\ trace = Warnings(capacity, max_seq_len, max_ep_len)
    /\ err = "none"

SpecConstructed == InitConstructed /\ [][NextSegments]_vars

\* ------------------------------------------ MultiAgentSegmentationBuffer
\* The router's capacity, max_seq_len and max_ep_len are the arguments of its
\* __init__, which the closure new_buffer keeps; every store it creates gets
\* them, so the runs of a store's add and sample are those of AddLoop and
\* SampleOutcomes under the same three values.

\* The policy ids in use: DEFAULT_POLICY_ID and one more.
PolicyIds == {"default_policy", "p1"}

\* self.buffers after __init__, line 181: a defaultdict without entries.
NoBuffers == [policy_id \in {} |-> <<>>]

\* new_buffer, lines 178-179
NewBuffer ==
    [capacity |-> capacity, max_seq_len |-> max_seq_len,
     max_ep_len |-> max_ep_len, buffer |-> <<>>]

\* Variant: the entry is made anew at every access, dict[key] = new_buffer().
Lookup_AlwaysNew(bufs, policy_id) ==
    [k \in DOMAIN bufs \cup {policy_id} |->
        IF k = policy_id THEN NewBuffer ELSE bufs[k]]

\* self.buffers[policy_id], line 195: defaultdict.__getitem__ makes the
\* entry with new_buffer() when the key is missing; the result is the dict
\* after the access.
Lookup(bufs, policy_id) ==
    [k \in DOMAIN bufs \cup {policy_id} |->
        IF k \in DOMAIN bufs THEN bufs[k] ELSE NewBuffer]

\* Variant: the dict is rebuilt around the store that was written.
Delegate_Alone(bufs, policy_id, buf) ==
    [k \in {policy_id} |-> [bufs[policy_id] EXCEPT !.buffer = buf]]

\* Variant: the episodes go to every store there is.
Delegate_Broadcast(bufs, policy_id, buf) ==
    [k \in DOMAIN bufs |-> [bufs[k] EXCEPT !.buffer = buf]]

\* .add(sample_batch), line 195: the store of policy_id now holds buf; the
\* other entries are not touched.
Delegate(bufs, policy_id, buf) ==
    [bufs EXCEPT ![policy_id].buffer = buf]

\* The episodes a producer collects for one policy in the router's batches.
RouterEpisodes == {GenEpisode(sp[1], sp[2]) : sp \in EpisodeSpecs}

\* The batches handed to the router's add(): a SampleBatch, or a
\* MultiAgentBatch with an episode for each of one or more policies.
RouterInputs ==
    {[type |-> "SampleBatch", batch |-> b] : b \in RouterEpisodes}
    \cup {[type |-> "MultiAgentBatch", policy_batches |-> pb] :
            pb \in UNION {[ks -> RouterEpisodes] :
                            ks \in (SUBSET PolicyIds) \ {{}}}}

\* batch.as_multi_agent(), line 192: a SampleBatch becomes the batch of
\* DEFAULT_POLICY_ID, a MultiAgentBatch is taken as it is.
AsMultiAgent(batch) ==
    IF batch.type = "SampleBatch"
    THEN [policy_id \in {"default_policy"} |-> batch.batch]
    ELSE batch.policy_batches

\* add, lines 194-195: the loop over the policy batches still to do; the
\* outcomes are the dict at the end and the runs of each store's add.
RECURSIVE RouterAddLoop(_, _, _)
RouterAddLoop(bufs, policy_batches, todo) ==
    IF todo = {}
    THEN {[bufs |-> bufs, runs |-> NoBuffers]}
    ELSE LET policy_id == CHOOSE k \in todo : TRUE
             got == Lookup(bufs, policy_id)
         IN  UNION {{[bufs |-> rest.bufs,
                      runs |-> [k \in DOMAIN rest.runs \cup {policy_id} |->
                                  IF k = policy_id THEN one.runs
                                  ELSE rest.runs[k]]] :
                        rest \in RouterAddLoop(
                                    Delegate(got, policy_id, one.buf),
                                    policy_batches, todo \ {policy_id})} :
                    one \in AddLoop(got[policy_id].buffer,
                                    SplitByEpisode(policy_batches[policy_id]),
                                    1)}

\* MultiAgentSegmentationBuffer.add, lines 183-195
RouterAdd ==
    /\ call = Idle
    /\ \E batch \in RouterInputs :
        LET policy_batches == AsMultiAgent(batch)
        IN  \E done \in RouterAddLoop(buffers, policy_batches,
                                      DOMAIN policy_batches) :
                /\ buffers' = done.bufs
                /\ call' = [op |-> "router_add",
                            policy_batches |-> policy_batches]
                /\ ret' = <<>>
                /\ trace' = done.runs
                /\ err' = "none"
                /\ UNCHANGED <<capacity, max_seq_len, max_ep_len, buffer,
                               threads, inference>>

\* Variant: every policy id is paired with the store of another one, when
\* there is another one.
Items_Crossed(bufs) ==
    {<<k, bufs[CHOOSE o \in DOMAIN bufs :
                  DOMAIN bufs = {k} \/ o # k]>> : k \in DOMAIN bufs}

\* self.buffers.items(), line 213: the pairs (policy_id, store).
Items(bufs) == {<<k, bufs[k]>> : k \in DOMAIN bufs}

\* sample, lines 212-215: the loop over the items still to do, one sample()
\* of the store each; an exception of a store's sample leaves the call.
RECURSIVE RouterSampleLoop(_, _)
RouterSampleLoop(todo, batch_size) ==
    IF todo = {}
    THEN {[err |-> "none", ret |-> NoBuffers, trace |-> NoBuffers]}
    ELSE LET item == CHOOSE it \in todo : TRUE
         IN  UNION {{IF one.err # "none"
                     THEN [err |-> one.err, ret |-> NoBuffers,
                           trace |-> NoBuffers]
                     ELSE IF rest.err # "none"
                     THEN rest
                     ELSE [err   |-> "none",
                           ret   |-> [k \in DOMAIN rest.ret \cup {item[1]} |->
                                        IF k = item[1] THEN one.ret
                                        ELSE rest.ret[k]],
                           trace |-> [k \in DOMAIN rest.trace \cup {item[1]} |->
                                        IF k = item[1] THEN one.trace
                                        ELSE rest.trace[k]]] :
                        rest \in RouterSampleLoop(todo \ {item}, batch_size)} :
                    one \in SampleOutcomes(item[2].buffer, batch_size)}

\* MultiAgentSegmentationBuffer.sample, lines 197-215
RouterSample ==
    /\ call = Idle
    /\ \E batch_size \in BatchSizes :
        \E out \in RouterSampleLoop(Items(buffers), batch_size) :
            /\ call' = [op |-> "router_sample", batch_size |-> batch_size]
            /\ err' = out.err
            /\ ret' = out.ret
            /\ trace' = out.trace
            /\ UNCHANGED <<capacity, max_seq_len, max_ep_len, buffer, buffers,
                           threads, inference>>

\* Variant: a missing policy id selects an empty batch, dict.get(key, []).
PolicyBatch_GetDefault(out, policy_id) ==
    IF policy_id \in DOMAIN out.ret
    THEN [err |-> "none", ret |-> out.ret[policy_id],
          trace |-> out.trace[policy_id]]
    ELSE [err |-> "none", ret |-> <<>>, trace |-> <<>>]

\* tests/_as_sample_batch, line 111: batch.policy_batches[policy_id] on the
\* MultiAgentBatch that sample returned; a dict raises KeyError for a key it
\* does not hold.
PolicyBatch(out, policy_id) ==
    IF policy_id \in DOMAIN out.ret
    THEN [err |-> "none", ret |-> out.ret[policy_id],
          trace |-> out.trace[policy_id]]
    ELSE [err |-> "KeyError", ret |-> <<>>, trace |-> <<>>]

\* The segments of one policy, as the callers in tests get them:
\* _as_sample_batch(buffer.sample(bs), policy_id).
RouterSampleKey ==
    /\ call = Idle
    /\ \E batch_size \in BatchSizes : \E policy_id \in PolicyIds :
        \E out \in RouterSampleLoop(Items(buffers), batch_size) :
            LET got == IF out.err # "none" THEN out
                       ELSE PolicyBatch(out, policy_id)
            IN  /\ call' = [op |-> "router_sample_key",
                            policy_id |-> policy_id,
                            batch_size |-> batch_size]
                /\ err' = got.err
                /\ ret' = got.ret
                /\ trace' = got.trace
                /\ UNCHANGED <<capacity, max_seq_len, max_ep_len, buffer,
                               buffers, threads, inference>>

\* MultiAgentSegmentationBuffer.__init__, lines 165-181, with episodes of up
\* to one step kept.
InitRouter ==
    /\ capacity \in 1..MaxCapacity
    /\ max_seq_len \in 1..MaxSeqLen
    /\ max_ep_len = 1
    /\ buffer = <<>>
    /\ buffers = NoBuffers
    /\ threads = <<>>
    /\ NoInference
    /\ call = Idle
    /\ ret = <<>>
    /\ trace = <<>>
    /\ err = "none"

NextRouter == RouterAdd \/ RouterSample \/ RouterSampleKey \/ Return

SpecRouter == InitRouter /\ [][NextRouter]_vars

\* ------------------------------------------------- a store or a router
\* The tests run every scenario once with a SegmentationBuffer and once with
\* a MultiAgentSegmentationBuffer built with the same arguments
\* (for buffer_cls in [...]); a run drives the object of its class only.
InitBoth ==
    /\ capacity \in 1..MaxCapacity
    /\ max_seq_len \in 1..MaxSeqLen
    /\ max_ep_len = 1
    /\ buffer = <<>>
    /\ buffers = NoBuffers
    /\ threads = <<>>
    /\ NoInference
    /\ call = Idle
    /\ ret = <<>>
    /\ trace = <<>>
    /\ err = "none"

\* The run is one of the store: the router has been given nothing.
StoreRun == buffers = NoBuffers

\* The run is one of the router: the store has been given nothing.
RouterRun == buffer = <<>>

StoreAdd == StoreRun /\ Add

StoreSample == StoreRun /\ Sample

RunRouterAdd == RouterRun /\ RouterAdd

RunRouterSample == RouterRun /\ RouterSample

RunRouterSampleKey == RouterRun /\ RouterSampleKey

NextBoth ==
    \/ StoreAdd
    \/ StoreSample
    \/ RunRouterAdd
    \/ RunRouterSample
    \/ RunRouterSampleKey
    \/ Return

SpecBoth == InitBoth /\ [][NextBoth]_vars

\* ------------------------------------------- several threads, one store
\* Two producers call add() and one consumer calls sample(1) on the same
\* SegmentationBuffer.  A call is followed statement by statement: another
\* thread can run between any two statements of _add_single and of
\* _sample_single, each statement reading or writing self._buffer once.
Producers == {"w1", "w2"}
Consumers == {"r1"}
Threads == Producers \cup Consumers

IdleThread == [pc |-> "idle"]

\* Variant: the capacity test is <=.
BelowCapacity_Inclusive(n) == n <= capacity

\* _add_single, line 59: len(self._buffer) < self.capacity
BelowCapacity(n) == n < capacity

\* add with a batch of one episode, up to the test of line 59: the episode
\* is split off and cut to max_ep_len (lines 42-57), all on locals.
ThreadAdd(t) ==
    /\ t \in Producers
    /\ threads[t].pc = "idle"
    /\ \E episode \in RouterEpisodes :
          threads' = [threads EXCEPT
                        ![t] = [pc |-> "check", episode |-> Truncate(episode)]]
    /\ UNCHANGED <<capacity, max_seq_len, max_ep_len, buffer, buffers,
                   call, ret, trace, err, inference>>

\* _add_single, line 59: the test reads the length of the list and picks
\* the branch.
ThreadCheck(t) ==
    /\ threads[t].pc = "check"
    /\ threads' = [threads EXCEPT
                     ![t].pc = IF BelowCapacity(Len(buffer))
                               THEN "append" ELSE "replace"]
    /\ UNCHANGED <<capacity, max_seq_len, max_ep_len, buffer, buffers,
                   call, ret, trace, err, inference>>

\* Variant: the length is tested again at the append, which turns into an
\* overwrite of slot 0 when the list has filled up meanwhile.
ThreadAppend_Rechecked(t) ==
    /\ threads[t].pc = "append"
    /\ buffer' = IF Len(buffer) < capacity
                 THEN Append(buffer, threads[t].episode)
                 ELSE [buffer EXCEPT ![1] = threads[t].episode]
    /\ threads' = [threads EXCEPT ![t] = [pc |-> "done", op |-> "add"]]
    /\ UNCHANGED <<capacity, max_seq_len, max_ep_len, buffers,
                   call, ret, trace, err, inference>>

\* _add_single, line 60: self._buffer.append(episode), on the branch the
\* test of line 59 picked.
ThreadAppend(t) ==
    /\ threads[t].pc = "append"
    /\ buffer' = Append(buffer, threads[t].episode)
    /\ threads' = [threads EXCEPT ![t] = [pc |-> "done", op |-> "add"]]
    /\ UNCHANGED <<capacity, max_seq_len, max_ep_len, buffers,
                   call, ret, trace, err, inference>>

\* _add_single, lines 62-64: replace_ind is drawn and the slot is written.
ThreadReplace(t) ==
    /\ threads[t].pc = "replace"
    /\ \E replace_ind \in RandInt(0, capacity) :
          buffer' = [buffer EXCEPT ![replace_ind + 1] = threads[t].episode]
    /\ threads' = [threads EXCEPT ![t] = [pc |-> "done", op |-> "add"]]
    /\ UNCHANGED <<capacity, max_seq_len, max_ep_len, buffers,
                   call, ret, trace, err, inference>>

\* sample(1) up to _sample_single, line 88: buffer_ind is drawn from the
\* length of the list; on an empty list np.random.randint raises.
ThreadSample(t) ==
    /\ t \in Consumers
    /\ threads[t].pc = "idle"
    /\ IF RandInt(0, Len(buffer)) = {}
       THEN threads' = [threads EXCEPT
                          ![t] = [pc |-> "done", op |-> "sample",
                                  err |-> "ValueError"]]
       ELSE \E buffer_ind \in RandInt(0, Len(buffer)) :
              threads' = [threads EXCEPT
                            ![t] = [pc |-> "read", buffer_ind |-> buffer_ind]]
    /\ UNCHANGED <<capacity, max_seq_len, max_ep_len, buffer, buffers,
                   call, ret, trace, err, inference>>

\* _sample_single, line 89: episode = self._buffer[buffer_ind]
ThreadRead(t) ==
    /\ threads[t].pc = "read"
    /\ IF threads[t].buffer_ind + 1 \in DOMAIN buffer
       THEN threads' = [threads EXCEPT
                          ![t] = [pc |-> "build",
                                  buffer_ind |-> threads[t].buffer_ind,
                                  episode |-> buffer[threads[t].buffer_ind + 1]]]
       ELSE threads' = [threads EXCEPT
                          ![t] = [pc |-> "done", op |-> "sample",
                                  err |-> "IndexError"]]
    /\ UNCHANGED <<capacity, max_seq_len, max_ep_len, buffer, buffers,
                   call, ret, trace, err, inference>>

\* Variant: the actions are not sliced from the local episode but from the
\* slot, read again when the segment is built (self._buffer[buffer_ind]).
ThreadBuild_Reread(t) ==
    /\ threads[t].pc = "build"
    /\ \E si \in StartRange(EnvSteps(threads[t].episode)) :
          LET run   == SampleSingle(<<threads[t].episode>>, 0, si)
              again == SampleSingle(<<buffer[threads[t].buffer_ind + 1]>>,
                                    0, si)
          IN  threads' = [threads EXCEPT
                            ![t] = [pc |-> "done", op |-> "sample",
                                    err |-> IF run.asserts THEN "none"
                                            ELSE "AssertionError",
                                    segment |-> [run.segment EXCEPT
                                       !.actions = again.segment.actions],
                                    episode |-> threads[t].episode]]
    /\ UNCHANGED <<capacity, max_seq_len, max_ep_len, buffer, buffers,
                   call, ret, trace, err, inference>>

\* _sample_single, lines 90-156, on the episode read at line 89: si is
\* drawn, the segment is built and the five shape assertions are made.
ThreadBuild(t) ==
    /\ threads[t].pc = "build"
    /\ \E si \in StartRange(EnvSteps(threads[t].episode)) :
          LET run == SampleSingle(<<threads[t].episode>>, 0, si)
          IN  threads' = [threads EXCEPT
                            ![t] = [pc |-> "done", op |-> "sample",
                                    err |-> IF run.asserts THEN "none"
                                            ELSE "AssertionError",
                                    segment |-> run.segment,
                                    episode |-> threads[t].episode]]
    /\ UNCHANGED <<capacity, max_seq_len, max_ep_len, buffer, buffers,
                   call, ret, trace, err, inference>>

\* The thread takes what its call returned and is free for its next call.
ThreadReturn(t) ==
    /\ threads[t].pc = "done"
    /\ threads' = [threads EXCEPT ![t] = IdleThread]
    /\ UNCHANGED <<capacity, max_seq_len, max_ep_len, buffer, buffers,
                   call, ret, trace, err, inference>>

\* __init__, lines 30-34, and the threads before their first call.
InitThreads ==
    /\ capacity \in 1..MaxCapacity
    /\ max_seq_len \in 1..MaxSeqLen
    /\ max_ep_len = 1
    /\ buffer = <<>>
    /\ buffers = <<>>
    /\ threads = [t \in Threads |-> IdleThread]
    /\ NoInference
    /\ call = Idle
    /\ ret = <<>>
    /\ trace = <<>>
    /\ err = "none"

NextThreads ==
    \E t \in Threads :
        \/ ThreadAdd(t)
        \/ ThreadCheck(t)
        \/ ThreadAppend(t)
        \/ ThreadReplace(t)
        \/ ThreadSample(t)
        \/ ThreadRead(t)
        \/ ThreadBuild(t)
        \/ ThreadReturn(t)

SpecThreads == InitThreads /\ [][NextThreads]_vars

\* The same threads when every add and every sample is wrapped in one lock
\* for the whole call: the lock is held by the thread that is inside a
\* call, and a call starts only when no other thread holds it.
LockFree(t) == \A u \in Threads \ {t} : threads[u].pc \in {"idle", "done"}

LockedAdd(t) == LockFree(t) /\ ThreadAdd(t)

LockedSample(t) == LockFree(t) /\ ThreadSample(t)

NextLocked ==
    \E t \in Threads :
        \/ LockedAdd(t)
        \/ ThreadCheck(t)
        \/ ThreadAppend(t)
        \/ ThreadReplace(t)
        \/ LockedSample(t)
        \/ ThreadRead(t)
        \/ ThreadBuild(t)
        \/ ThreadReturn(t)

SpecLocked == InitThreads /\ [][NextLocked]_vars

\* ------------------------------------------------- inference (the policy)
\* rllib/algorithms/dt/dt_torch_policy.py: the input_dict that
\* get_initial_input_dict and get_next_input_dict hand to
\* compute_single_action, and what action_distribution_fn makes of it.
\* Arrays with a batch dimension are sequences of rows.

\* What the environment and the configuration can supply: observations,
\* the actions of a Discrete(2) space, rewards, target returns.
Observations == 1..2
Actions == 0..1
Rewards == 0..2
TargetReturns == {3, 5}

\* np.full(n, fill_value)
Full(n, fill_value) == [i \in 1..n |-> fill_value]

\* x[1:] and x[-1:]
DropFirst(x) == PySlice(x, 1, Len(x))
LastOnly(x) == PySlice(x, -1, Len(x))

\* get_initial_input_dict, lines 173-198
InitialInputDict(observation) ==
    [obs           |-> Zeros(max_seq_len - 1) \o <<observation>>,
     actions       |-> Zeros(max_seq_len - 1),
     returns_to_go |-> Zeros(max_seq_len - 1),
     rewards       |-> 0,
     t             |-> Full(max_seq_len - 1, -1)]

\* get_next_input_dict, lines 256-262: T[1:] followed by T[-1:] + 1
NextTimesteps(t) ==
    DropFirst(t) \o [i \in 1..Len(LastOnly(t)) |-> LastOnly(t)[i] + 1]

\* get_next_input_dict, lines 230-264
NextInputDict(d, action, reward, next_obs, extra_out) ==
    [obs           |-> DropFirst(d.obs) \o <<next_obs>>,
     actions       |-> DropFirst(d.actions) \o <<action>>,
     rewards       |-> reward,
     returns_to_go |-> DropFirst(d.returns_to_go)
                          \o <<extra_out.returns_to_go>>,
     t             |-> NextTimesteps(d.t)]

\* action_distribution_fn, lines 280-282 and 294-296: obs_batch is the
\* input_dict with a batch dimension for each value (here of size 1).
WithBatchDim(d) ==
    [obs           |-> <<d.obs>>,
     actions       |-> <<d.actions>>,
     returns_to_go |-> <<d.returns_to_go>>,
     rewards       |-> <<d.rewards>>,
     t             |-> <<d.t>>]

\* Variant: timestep 0 is masked out as well, T > 0.
AttentionMask_Positive(timestep) == IF timestep > 0 THEN 1 ELSE 0

\* action_distribution_fn, lines 319-321: torch.where(T >= 0, 1.0, 0.0)
AttentionMask(timestep) == IF timestep >= 0 THEN 1 ELSE 0

\* action_distribution_fn, lines 325-329
ClipTimestep(timestep) == IF timestep < 0 THEN 0 ELSE timestep

\* Variant: the return-to-go of the first timestep is updated like the others.
NewRtg_AlwaysUpdated(new_timestep, initial_rtg, updated_rtg) == updated_rtg

\* action_distribution_fn, line 349:
\* torch.where(new_timestep == 0, initial_rtg, updated_rtg[:, None])
NewRtg(new_timestep, initial_rtg, updated_rtg) ==
    IF new_timestep = 0 THEN initial_rtg ELSE updated_rtg

\* action_distribution_fn, lines 311-361: obs_batch as the model gets it.
ModelInput(b) ==
    LET batch_size   == Len(b.obs)
        rows         == 1..batch_size
        timesteps    == b.t
        new_timestep == [i \in rows |->
                           [j \in 1..Len(LastOnly(timesteps[i])) |->
                              LastOnly(timesteps[i])[j] + 1]]
        unclipped    == [i \in rows |-> timesteps[i] \o new_timestep[i]]
        rtg          == b.returns_to_go
        last_rtg     == [i \in rows |-> rtg[i][Len(rtg[i])]]
        last_reward  == b.rewards
        updated_rtg  == [i \in rows |-> last_rtg[i] - last_reward[i]]
        initial_rtg  == [i \in rows |-> <<target_return>>]
        new_rtg      == [i \in rows |->
                           [j \in 1..Len(new_timestep[i]) |->
                              NewRtg(new_timestep[i][j], initial_rtg[i][1],
                                     updated_rtg[i])]]
    IN  [obs             |-> b.obs,
         rewards         |-> b.rewards,
         t               |-> [i \in rows |->
                                [j \in 1..Len(unclipped[i]) |->
                                   ClipTimestep(unclipped[i][j])]],
         attention_masks |-> [i \in rows |->
                                [j \in 1..Len(unclipped[i]) |->
                                   AttentionMask(unclipped[i][j])]],
         returns_to_go   |-> [i \in rows |->
                                [j \in 1..(Len(rtg[i]) + Len(new_rtg[i])) |->
                                   <<(rtg[i] \o new_rtg[i])[j]>>]],
         actions         |-> [i \in rows |-> b.actions[i] \o <<0>>]]

\* extra_action_out, lines 379-382: RETURNS_TO_GO[:, -1, 0]
ExtraOut(b) ==
    [returns_to_go |->
        [i \in 1..Len(b.returns_to_go) |->
            b.returns_to_go[i][Len(b.returns_to_go[i])][1]]]

\* env.reset() has returned its first observation and the loop asks for the
\* first input_dict; this also starts the next episode after a step.
GetInitialInputDict ==
    /\ rollout.pc \in {"reset", "step"}
    /\ \E observation \in Observations :
          input_dict' = InitialInputDict(observation)
    /\ obs_batch' = <<>>
    /\ extra' = <<>>
    /\ rollout' = [pc |-> "act", rewards |-> <<>>]
    /\ UNCHANGED <<capacity, max_seq_len, max_ep_len, buffer, buffers,
                   threads, target_return, call, ret, trace, err>>

\* compute_single_action(input_dict=input_dict) as far as
\* action_distribution_fn: obs_batch is rewritten in place and the model
\* predicts an action (any action of the space, the network is not part of
\* this model).
ActionDistributionFn ==
    /\ rollout.pc = "act"
    /\ obs_batch' = ModelInput(WithBatchDim(input_dict))
    /\ \E pred_action \in Actions :
          rollout' = [pc |-> "extra", rewards |-> rollout.rewards,
                      action |-> pred_action]
    /\ UNCHANGED <<capacity, max_seq_len, max_ep_len, buffer, buffers,
                   threads, target_return, input_dict, extra,
                   call, ret, trace, err>>

\* extra_action_out on the obs_batch action_distribution_fn has left.
ExtraActionOut ==
    /\ rollout.pc = "extra"
    /\ extra' = ExtraOut(obs_batch)
    /\ rollout' = [rollout EXCEPT !.pc = "step"]
    /\ UNCHANGED <<capacity, max_seq_len, max_ep_len, buffer, buffers,
                   threads, target_return, input_dict, obs_batch,
                   call, ret, trace, err>>

\* env.step(action) has returned a reward and the next observation, and
\* the loop asks for the next input_dict with the action it took and the
\* (unbatched) extra of that action.  Episodes end after MaxEpLen steps.
GetNextInputDict ==
    /\ rollout.pc = "step"
    /\ Len(rollout.rewards) < MaxEpLen
    /\ \E reward \in Rewards, next_obs \in Observations :
          /\ input_dict' = NextInputDict(input_dict, rollout.action, reward,
                              next_obs,
                              [returns_to_go |-> extra.returns_to_go[1]])
          /\ rollout' = [pc |-> "act",
                         rewards |-> Append(rollout.rewards, reward)]
    /\ UNCHANGED <<capacity, max_seq_len, max_ep_len, buffer, buffers,
                   threads, target_return, obs_batch, extra,
                   call, ret, trace, err>>

\* The policy after __init__ (lines 66-77: max_seq_len is the model's
\* max_seq_len, and the model's view requirement for T, shift
\* -(max_seq_len - 2):0, needs max_seq_len >= 2), before env.reset().
InitInference ==
    /\ capacity = 1
    /\ max_seq_len \in 2..MaxSeqLen
    /\ max_ep_len = MaxEpLen
    /\ buffer = <<>>
    /\ buffers = <<>>
    /\ threads = <<>>
    /\ target_return \in TargetReturns
    /\ input_dict = <<>>
    /\ obs_batch = <<>>
    /\ extra = <<>>
    /\ rollout = [pc |-> "reset", rewards |-> <<>>]
    /\ call = Idle
    /\ ret = <<>>
    /\ trace = <<>>
    /\ err = "none"

NextInference ==
    \/ GetInitialInputDict
    \/ ActionDistributionFn
    \/ ExtraActionOut
    \/ GetNextInputDict

SpecInference == InitInference /\ [][NextInference]_vars

\* ================================================================ claims
\* What the store holds for an inserted episode e: its first n steps, which
\* is e itself when e has at most n steps.
FirstSteps(e, n) == [k \in Columns |-> SubSeq(e[k], 1, Min(n, Len(e[k])))]

\* The episodes the add() call that has just run handed to _add_single, in
\* order, and the slots they were written to.
Inserted == [k \in DOMAIN trace |-> trace[k].episode]
Slots == [k \in DOMAIN trace |-> trace[k].slot]

\* x[m > 0.5]: the entries of x at the positions where the mask m is 1.
RECURSIVE MaskSelect(_, _)
MaskSelect(x, m) ==
    IF x = <<>> \/ m = <<>> THEN <<>>
    ELSE (IF Head(m) = 1 THEN <<Head(x)>> ELSE <<>>)
             \o MaskSelect(Tail(x), Tail(m))

\* The episode the k-th segment of the batch just sampled was cut from.
Source(k) == buffer[trace[k].buffer_ind + 1]

Sampled == call.op = "sample" /\ err = "none"

\* C1: the number of stored episodes never exceeds capacity, whatever
\* sequence of add calls (of one or several episodes each) has run.
C1_CapacityInvariant == Len(buffer) <= capacity

\* C1 witness: an add of two episodes has run on a store of capacity 2 that
\* was already full (both episodes overwrote slot 0), and the store is full.
C1_Witness ==
    /\ call.op = "add"
    /\ capacity = 2
    /\ Len(buffer) = capacity
    /\ Slots = <<0, 0>>

\* C2: an insert of one episode into a full store keeps the size and changes
\* exactly one slot, of index in [0, capacity): that slot now holds the new
\* episode (as _add_single stores it: its first max_ep_len steps) and every
\* other slot holds what it held before the call.
C2_FullInsertReplacesOneSlot ==
    [][(/\ call = Idle
        /\ call'.op = "add"
        /\ Len(buffer) = capacity
        /\ Len(trace') = 1)
       => /\ Len(buffer') = Len(buffer)
          /\ \E i \in 0..(capacity - 1) :
                /\ buffer'[i + 1] = FirstSteps(trace'[1].episode, max_ep_len)
                /\ \A j \in 0..(capacity - 1) :
                       j # i => buffer'[j + 1] = buffer[j + 1]]_vars

\* C2 witness: one episode was inserted into a full store of capacity 2 and
\* overwrote slot 0, next to a different episode in slot 1.
C2_Witness ==
    /\ call.op = "add"
    /\ capacity = 2
    /\ Len(buffer) = 2
    /\ Slots = <<0>>
    /\ buffer[1] # buffer[2]

\* C3: every sampled segment has max_seq_len rows of observations and of
\* actions, max_seq_len timesteps and mask entries and max_seq_len + 1
\* returns-to-go; the five assertions of _sample_single never fail.
C3_ShapeInvariant ==
    call.op = "sample" =>
        /\ err # "AssertionError"
        /\ \A k \in DOMAIN ret :
              /\ Len(ret[k].obs) = max_seq_len
              /\ Len(ret[k].actions) = max_seq_len
              /\ Len(ret[k].t) = max_seq_len
              /\ Len(ret[k].attention_masks) = max_seq_len
              /\ Len(ret[k].returns_to_go) = max_seq_len + 1

\* C3 witness: one batch holds a front-padded segment of an episode shorter
\* than max_seq_len and an unpadded segment of an episode that is not.
C3_Witness ==
    /\ Sampled
    /\ \E k \in DOMAIN trace :
          trace[k].ep_len < max_seq_len /\ trace[k].pad_length > 0
    /\ \E k \in DOMAIN trace :
          trace[k].ep_len >= max_seq_len /\ trace[k].pad_length = 0

\* C4: in every sampled segment the observations, the actions and the first
\* max_seq_len returns-to-go, read at the positions where the mask is 1,
\* equal the source episode's slice from the segment's first timestep
\* through its last timestep.
C4_SegmentIsSubstring ==
    Sampled =>
        \A k \in DOMAIN ret :
            LET seg   == ret[k]
                n     == Len(seg.t)
                first == seg.t[1]
                last  == seg.t[n]
                m     == seg.attention_masks
            IN  /\ MaskSelect(seg.obs, m)
                       = SubSeq(Source(k).obs, first + 1, last + 1)
                /\ MaskSelect(seg.actions, m)
                       = SubSeq(Source(k).actions, first + 1, last + 1)
                /\ MaskSelect(SubSeq(seg.returns_to_go, 1, n), m)
                       = SubSeq(Source(k).returns_to_go, first + 1, last + 1)

\* C4 witness: a segment with padding in front of two real steps, cut from
\* an episode of two or more steps.
C4_Witness ==
    /\ Sampled
    /\ \E k \in DOMAIN ret :
          /\ trace[k].pad_length > 0
          /\ trace[k].length >= 2

\* C5: the mask of every sampled segment is p zeros followed by
\* max_seq_len - p ones; the real rows are the last max_seq_len - p rows of
\* every array, nothing follows them in the observations, actions, timesteps
\* and mask, and the one entry after them in the returns-to-go is a
\* synthesized 0 exactly when the window reaches the episode end.
C5_PaddingIsPrefix ==
    Sampled =>
        \A k \in DOMAIN ret :
            LET seg == ret[k]
                loc == trace[k]
                n   == max_seq_len
                p   == n - loc.length
            IN  /\ p \in 0..n
                /\ seg.attention_masks = Zeros(p) \o Ones(n - p)
                /\ SubSeq(seg.obs, 1, p) = Zeros(p)
                /\ SubSeq(seg.actions, 1, p) = Zeros(p)
                /\ SubSeq(seg.returns_to_go, 1, p) = Zeros(p)
                /\ SubSeq(seg.obs, p + 1, n)
                       = SubSeq(Source(k).obs, loc.si + 1, loc.ei)
                /\ SubSeq(seg.actions, p + 1, n)
                       = SubSeq(Source(k).actions, loc.si + 1, loc.ei)
                /\ SubSeq(seg.returns_to_go, p + 1, n)
                       = SubSeq(Source(k).returns_to_go, loc.si + 1, loc.ei)
                /\ loc.back_padded <=> loc.ei = loc.ep_len
                /\ loc.back_padded => seg.returns_to_go[n + 1] = 0

\* C5 witness: a segment with both kinds of padding, zeros in front and the
\* synthesized 0 at the end of the returns-to-go.
C5_Witness ==
    /\ Sampled
    /\ \E k \in DOMAIN ret :
          /\ trace[k].pad_length > 0
          /\ trace[k].length > 0
          /\ trace[k].back_padded

\* C6: with L = min(max_seq_len, ep_len), the start index drawn for an
\* episode of ep_len steps lies in -(L-1)..(ep_len - L), every integer of
\* that range can be drawn, and ei = si + L lies in 1..ep_len.
C6_StartIndexRange ==
    /\ \A i \in DOMAIN buffer :
          LET ep_len == Len(buffer[i].obs)
              L      == Min(max_seq_len, ep_len)
          IN  StartRange(ep_len) = (-(L - 1))..(ep_len - L)
    /\ Sampled =>
          \A k \in DOMAIN trace :
              LET loc == trace[k]
                  L   == Min(max_seq_len, loc.ep_len)
              IN  /\ -(L - 1) <= loc.si_draw
                  /\ loc.si_draw <= loc.ep_len - L
                  /\ loc.ei = loc.si_draw + L
                  /\ 1 <= loc.ei
                  /\ loc.ei <= loc.ep_len

\* C6 witness: one batch holds a segment drawn at the lowest start index of
\* an episode and a segment drawn at the highest one, the two being apart.
C6_Witness ==
    /\ Sampled
    /\ \E j, k \in DOMAIN trace :
          LET L == Min(max_seq_len, trace[j].ep_len)
          IN  /\ trace[j].buffer_ind = trace[k].buffer_ind
              /\ trace[j].si_draw = -(L - 1)
              /\ trace[k].si_draw = trace[k].ep_len - L
              /\ trace[j].si_draw < 0
              /\ trace[k].si_draw > 0

\* C7: the extra returns-to-go entry, at index max_seq_len, is the source
\* episode's returns-to-go at index ei when ei < ep_len and 0 when
\* ei = ep_len.
C7_TargetAlignment ==
    Sampled =>
        \A k \in DOMAIN ret :
            ret[k].returns_to_go[max_seq_len + 1] =
                IF trace[k].ei < trace[k].ep_len
                THEN Source(k).returns_to_go[trace[k].ei + 1]
                ELSE 0

\* C7 witness: one batch holds a window that stops before the end of its
\* episode and a window that reaches the end.
C7_Witness ==
    /\ Sampled
    /\ \E k \in DOMAIN trace : trace[k].ei < trace[k].ep_len
    /\ \E k \in DOMAIN trace : trace[k].ei = trace[k].ep_len

\* C8: an over-long episode is stored, not rejected: every episode of an
\* add call is written to a slot, what the slot holds (until a later episode
\* of the call overwrites it) is the episode's first max_ep_len steps, the
\* whole episode when it has no more steps than that, and so no stored
\* episode is ever longer than max_ep_len.
C8_Truncation ==
    /\ \A i \in DOMAIN buffer :
          \A c \in Columns : Len(buffer[i][c]) <= max_ep_len
    /\ call.op = "add" =>
          /\ err = "none"
          /\ Inserted = SplitByEpisode(call.batch)
          /\ \A k \in DOMAIN trace :
                LET stored == FirstSteps(trace[k].episode, max_ep_len)
                IN  /\ trace[k].slot \in 0..(Len(buffer) - 1)
                    /\ (\A j \in DOMAIN trace :
                            j > k => trace[j].slot # trace[k].slot)
                           => buffer[trace[k].slot + 1] = stored
                    /\ EnvSteps(trace[k].episode) <= max_ep_len
                           => stored = trace[k].episode

\* C8 witness: an episode of max_ep_len + 1 steps was inserted and the slot
\* it was written to still holds it, one step shorter.
C8_Witness ==
    /\ call.op = "add"
    /\ \E k \in DOMAIN trace :
          /\ EnvSteps(trace[k].episode) = max_ep_len + 1
          /\ \A j \in DOMAIN trace : j > k => trace[j].slot # trace[k].slot
          /\ EnvSteps(buffer[trace[k].slot + 1]) = max_ep_len

C10_CapacityOneKeepsLast ==
    capacity = 1 =>
        /\ Len(buffer) <= 1
        /\ call.op = "add" =>
              buffer = <<FirstSteps(trace[Len(trace)].episode, max_ep_len)>>

\* C10 witness: with capacity 1, an add of two episodes has run; both went
\* to slot 0 and the store does not hold the first of them.
C10_Witness ==
    /\ capacity = 1
    /\ call.op = "add"
    /\ Slots = <<0, 0>>
    /\ buffer[1] # FirstSteps(trace[1].episode, max_ep_len)

\* C11: while the store stays within its capacity, an add call appends: the
\* episodes of the call follow what was stored, in the order of arrival, each
\* in the slot after the one before it, and nothing stored is lost, moved or
\* stored twice.  From the empty store this gives, after n episodes with
\* n <= capacity, size n and the i-th inserted episode in slot i.
C11_AppendInArrivalOrder ==
    [][(/\ call = Idle
        /\ call'.op = "add"
        /\ Len(buffer) + Len(trace') <= capacity)
       => (/\ Len(buffer') = Len(buffer) + Len(trace')
           /\ \A i \in 1..Len(buffer) : buffer'[i] = buffer[i]
           /\ \A k \in 1..Len(trace') :
                /\ trace'[k].slot = Len(buffer) + k - 1
                /\ buffer'[Len(buffer) + k] =
                       FirstSteps(trace'[k].episode, max_ep_len))]_vars

\* C11 witness: the store of capacity 2 was filled from empty with two
\* different episodes, which sit in slots 0 and 1 in the order they came.
C11_Witness ==
    /\ call.op = "add"
    /\ capacity = 2
    /\ Slots = <<0, 1>>
    /\ buffer = <<FirstSteps(trace[1].episode, max_ep_len),
                  FirstSteps(trace[2].episode, max_ep_len)>>
    /\ buffer[1] # buffer[2]

\* The draws (buffer_ind, si) of the runs of one sample() outcome, in order.
DrawsOf(out) ==
    [k \in DOMAIN out.trace |->
        <<out.trace[k].buffer_ind, out.trace[k].si_draw>>]

\* C12: sample(batch_size) on a non-empty store returns batch_size segments,
\* the k-th being what _sample_single makes of the k-th run's own draws of an
\* episode and a start index; the draws of different runs do not constrain
\* one another: every sequence of batch_size possible draws can occur.
C12_BatchOfIndependentSegments ==
    /\ (call.op = "sample" /\ buffer # <<>>) =>
          /\ err = "none"
          /\ Len(ret) = call.batch_size
          /\ Len(trace) = call.batch_size
          /\ \A k \in 1..call.batch_size :
                /\ DrawsOf([trace |-> trace])[k] \in Draws(buffer)
                /\ ret[k] = SampleSingle(buffer, trace[k].buffer_ind,
                                         trace[k].si_draw).segment
    /\ (call = Idle /\ buffer # <<>>) =>
          \A batch_size \in BatchSizes :
              {DrawsOf(out) : out \in {o \in SampleOutcomes(buffer, batch_size) :
                                         o.err = "none"}}
                  = [1..batch_size -> Draws(buffer)]

\* C12 witness: a batch of two different segments, cut from the two episodes
\* of the store.
C12_Witness ==
    /\ Sampled
    /\ call.batch_size = 2
    /\ Len(ret) = 2
    /\ trace[1].buffer_ind # trace[2].buffer_ind
    /\ ret[1] # ret[2]

\* C16: in every sampled segment the timesteps at the positions where the
\* mask is 1 are max(si, 0), max(si, 0) + 1, ..., ei - 1 in this order, each
\* of them an index of the source episode (0 <= t < ep_len), and the
\* timesteps at the positions where the mask is 0 are 0.
C16_Timesteps ==
    Sampled =>
      \A k \in 1..Len(ret) :
        LET seg   == ret[k]
            loc   == trace[k]
            first == IF loc.si_draw > 0 THEN loc.si_draw ELSE 0
            real  == MaskSelect(seg.t, seg.attention_masks)
        IN  /\ Len(real) = loc.ei - first
            /\ \A i \in 1..Len(real) :
                  /\ real[i] = first + i - 1
                  /\ real[i] >= 0
                  /\ real[i] < loc.ep_len
            /\ \A j \in 1..Len(seg.t) :
                  seg.attention_masks[j] = 0 => seg.t[j] = 0

\* C16 witness: one batch holds a front-padded segment and a segment of two
\* or more real steps that starts after step 0 of its episode.
C16_Witness ==
    /\ Sampled
    /\ Len(ret) = 2
    /\ trace[1].pad_length > 0
    /\ trace[2].si_draw > 0
    /\ trace[2].length >= 2
    /\ ret[2].t[1] > 0

OneEpisodeOf(n) == Len(buffer) = 1 /\ EnvSteps(buffer[1]) = n

\* C14 as stated: with one stored episode of 5 steps and max_seq_len = 5,
\* every sampled segment starts at 0, has 5 real elements, no padding and a
\* mask of all ones.
C14_AlwaysFullSegment ==
    (Sampled /\ max_seq_len = 5 /\ OneEpisodeOf(5)) =>
      \A k \in 1..Len(ret) :
        /\ trace[k].si = 0
        /\ trace[k].length = 5
        /\ trace[k].pad_length = 0
        /\ ret[k].attention_masks = Ones(5)

\* C14, amended: with one stored episode of 5 steps and max_seq_len = 5 the
\* start index is drawn from -4..0, every value of which can be drawn; every
\* sampled segment starts at the clamped index 0 and has si + 5 real elements
\* behind -si padded positions, the mask being -si zeros and si + 5 ones;
\* it has 5 real elements, no padding and a mask of all ones exactly when
\* the draw is 0.
C14_FullSegmentOnlyAtZero ==
    /\ (max_seq_len = 5 /\ OneEpisodeOf(5)) => StartRange(5) = (-4)..0
    /\ (Sampled /\ max_seq_len = 5 /\ OneEpisodeOf(5)) =>
          \A k \in 1..Len(ret) :
            LET loc == trace[k]
            IN  /\ loc.si_draw \in (-4)..0
                /\ loc.si = 0
                /\ loc.length = loc.si_draw + 5
                /\ loc.pad_length = -loc.si_draw
                /\ ret[k].attention_masks =
                       Zeros(-loc.si_draw) \o Ones(loc.si_draw + 5)
                /\ loc.si_draw = 0 <=>
                      (/\ loc.length = 5
                       /\ loc.pad_length = 0
                       /\ ret[k].attention_masks = Ones(5))

\* C14 witness: one batch from the episode of 5 steps holds the full segment
\* (draw 0) and the segment of one real element behind 4 zeros (draw -4).
C14_Witness ==
    /\ Sampled
    /\ max_seq_len = 5
    /\ OneEpisodeOf(5)
    /\ Len(ret) = 2
    /\ trace[1].si_draw = 0
    /\ ret[1].attention_masks = Ones(5)
    /\ trace[2].si_draw = -4
    /\ ret[2].attention_masks = <<0, 0, 0, 0, 1>>

\* C15 as stated: with one stored episode of 3 steps and max_seq_len = 5,
\* every sampled segment has at least 2 padded positions at the front, and
\* one whose start index is the minimum of its range has exactly 2.
C15_TwoPadsAtMinimumStart ==
    (Sampled /\ max_seq_len = 5 /\ OneEpisodeOf(3)) =>
      \A k \in 1..Len(ret) :
        /\ trace[k].pad_length >= 2
        /\ SubSeq(ret[k].attention_masks, 1, 2) = Zeros(2)
        /\ (\A si \in StartRange(3) : trace[k].si_draw <= si) =>
              trace[k].pad_length = 2

\* C15, amended: with one stored episode of 3 steps and max_seq_len = 5 the
\* start index is drawn from -2..0; every sampled segment has 2 - si padded
\* positions at the front, which is at least 2; it is exactly 2 when si is
\* the maximum of its range (0) and 4 when si is the minimum (-2).
C15_TwoPadsAtMaximumStart ==
    /\ (max_seq_len = 5 /\ OneEpisodeOf(3)) => StartRange(3) = (-2)..0
    /\ (Sampled /\ max_seq_len = 5 /\ OneEpisodeOf(3)) =>
          \A k \in 1..Len(ret) :
            LET loc == trace[k]
            IN  /\ loc.si_draw \in (-2)..0
                /\ loc.length = loc.si_draw + 3
                /\ loc.pad_length = 2 - loc.si_draw
                /\ loc.pad_length >= 2
                /\ ret[k].attention_masks =
                       Zeros(loc.pad_length) \o Ones(loc.length)
                /\ loc.si_draw = 0 => loc.pad_length = 2
                /\ loc.si_draw = -2 => loc.pad_length = 4

\* C15 witness: one batch from the episode of 3 steps holds the segment drawn
\* at the minimum start (4 zeros in front) and the one drawn at the maximum
\* start (2 zeros in front).
C15_Witness ==
    /\ Sampled
    /\ max_seq_len = 5
    /\ OneEpisodeOf(3)
    /\ Len(ret) = 2
    /\ trace[1].si_draw = -2
    /\ ret[1].attention_masks = <<0, 0, 0, 0, 1>>
    /\ trace[2].si_draw = 0
    /\ ret[2].attention_masks = <<0, 0, 1, 1, 1>>

\* The slots the runs of one store's add wrote.
SlotsOf(runs) == {runs[j].slot : j \in DOMAIN runs}

\* C17: a store is created exactly when the router's add meets a policy id
\* without one; it gets the router's capacity, max_seq_len and max_ep_len and
\* starts empty, so after the call it holds the call's episodes only; an add
\* for a policy id that has a store writes into that store, which keeps what
\* the call did not overwrite; stores of other policy ids are not touched;
\* sampling registers no policy id and changes no store.
C17_LazyCreation ==
    [][/\ (call = Idle /\ call'.op = "router_add") =>
            LET keys == DOMAIN call'.policy_batches
            IN  /\ DOMAIN buffers' = DOMAIN buffers \cup keys
                /\ \A k \in DOMAIN buffers' :
                      /\ buffers'[k].capacity = capacity
                      /\ buffers'[k].max_seq_len = max_seq_len
                      /\ buffers'[k].max_ep_len = max_ep_len
                /\ \A k \in keys \ DOMAIN buffers :
                      /\ Len(buffers'[k].buffer)
                             = Min(Len(trace'[k]), capacity)
                      /\ \A i \in 1..Len(buffers'[k].buffer) :
                            \E j \in 1..Len(trace'[k]) :
                              /\ trace'[k][j].slot = i - 1
                              /\ buffers'[k].buffer[i] =
                                    FirstSteps(trace'[k][j].episode, max_ep_len)
                /\ \A k \in keys \cap DOMAIN buffers :
                      /\ Len(buffers'[k].buffer)
                             = Min(Len(buffers[k].buffer) + Len(trace'[k]),
                                   capacity)
                      /\ \A i \in 1..Len(buffers[k].buffer) :
                            (i - 1) \notin SlotsOf(trace'[k]) =>
                               buffers'[k].buffer[i] = buffers[k].buffer[i]
                /\ \A k \in DOMAIN buffers \ keys : buffers'[k] = buffers[k]
       /\ (call = Idle /\ call'.op \in {"router_sample", "router_sample_key"})
            => buffers' = buffers]_vars

\* C17 witness: an add for p1 alone wrote slot 1 of p1's store, next to the
\* different episode an earlier add had put in slot 0, while default_policy
\* has no store.
C17_Witness ==
    /\ call.op = "router_add"
    /\ DOMAIN call.policy_batches = {"p1"}
    /\ DOMAIN buffers = {"p1"}
    /\ Len(trace["p1"]) = 1
    /\ trace["p1"][1].slot = 1
    /\ Len(buffers["p1"].buffer) = 2
    /\ buffers["p1"].buffer[1] # buffers["p1"].buffer[2]

\* C18: no call of the router's add or sample removes a policy id: the ids
\* with a store before a step have one after it, and every store there is
\* holds at least one episode.
C18_KeysNeverRemoved ==
    [][/\ DOMAIN buffers \subseteq DOMAIN buffers'
       /\ \A k \in DOMAIN buffers' : buffers'[k].buffer # <<>>]_vars

\* C18 witness: an add for p1 alone has run while default_policy has a store,
\* and p1's store is full after overwriting (slot 0 written, nothing grown).
C18_Witness ==
    /\ call.op = "router_add"
    /\ DOMAIN call.policy_batches = {"p1"}
    /\ DOMAIN buffers = {"default_policy", "p1"}
    /\ capacity = 2
    /\ Len(buffers["p1"].buffer) = 2
    /\ trace["p1"][1].slot = 0
    /\ buffers["default_policy"].buffer # <<>>

\* C19: the router's sample returns a batch for every policy id that has a
\* store and for no other; the batch of a policy id holds batch_size
\* segments, each of them what _sample_single makes of draws on that policy
\* id's own store, its real rows being rows of an episode held there.
C19_SampleAllKeys ==
    call.op = "router_sample" =>
      /\ err = "none"
      /\ DOMAIN ret = DOMAIN buffers
      /\ DOMAIN trace = DOMAIN buffers
      /\ \A k \in DOMAIN buffers :
            /\ Len(ret[k]) = call.batch_size
            /\ Len(trace[k]) = call.batch_size
            /\ \A j \in 1..call.batch_size :
                  LET loc == trace[k][j]
                      own == buffers[k].buffer
                  IN  /\ <<loc.buffer_ind, loc.si_draw>> \in Draws(own)
                      /\ ret[k][j] = SampleSingle(own, loc.buffer_ind,
                                                  loc.si_draw).segment
                      /\ MaskSelect(ret[k][j].obs, ret[k][j].attention_masks)
                            = SubSeq(own[loc.buffer_ind + 1].obs,
                                     loc.si + 1, loc.ei)

\* C19 witness: both policy ids have a store, the two stores hold different
\* episodes, and the sampled batches of two segments each differ.
C19_Witness ==
    /\ call.op = "router_sample"
    /\ err = "none"
    /\ DOMAIN ret = {"default_policy", "p1"}
    /\ call.batch_size = 2
    /\ buffers["default_policy"].buffer # buffers["p1"].buffer
    /\ ret["default_policy"] # ret["p1"]

SampleDone(t) == threads[t].pc = "done" /\ threads[t].op = "sample"

\* C21: when every add and every sample is one atomic call (the whole call
\* under one lock), then however the calls of the two producers and the
\* consumer follow one another the store never holds more than capacity
\* episodes and no sample fails a shape assertion: a sample raises nothing
\* but the ValueError of the empty store, and the segment it returns has
\* max_seq_len rows of observations, actions, timesteps and mask and one
\* more of returns-to-go.
C21_LockedCallsKeepInvariants ==
    /\ Len(buffer) <= capacity
    /\ \A t \in Consumers :
          SampleDone(t) =>
            /\ threads[t].err \in {"none", "ValueError"}
            /\ threads[t].err = "none" =>
                  LET seg == threads[t].segment
                  IN  /\ Len(seg.obs) = max_seq_len
                      /\ Len(seg.actions) = max_seq_len
                      /\ Len(seg.t) = max_seq_len
                      /\ Len(seg.attention_masks) = max_seq_len
                      /\ Len(seg.returns_to_go) = max_seq_len + 1

\* C21 witness: on a store of capacity 1 both producers have completed an
\* add (the later one overwrote the earlier one's episode) and the consumer
\* has a front-padded segment.
C21_Witness ==
    /\ capacity = 1
    /\ Len(buffer) = 1
    /\ \A t \in Producers : threads[t].pc = "done"
    /\ \A t \in Consumers :
          /\ SampleDone(t)
          /\ threads[t].err = "none"
          /\ threads[t].segment.attention_masks[1] = 0

\* C22: a store built with max_seq_len > max_ep_len works like any other:
\* no add raises, a sample raises only on the empty store, every segment
\* has the asserted shapes, and every segment is padded in front by at
\* least max_seq_len - max_ep_len positions, masked out.
C22_LongSegmentsArePadded ==
    max_seq_len > max_ep_len =>
      /\ call.op = "add" => err = "none"
      /\ call.op = "sample" =>
            /\ err = (IF buffer = <<>> THEN "ValueError" ELSE "none")
            /\ \A k \in 1..Len(ret) :
                  /\ Len(ret[k].obs) = max_seq_len
                  /\ Len(ret[k].actions) = max_seq_len
                  /\ Len(ret[k].t) = max_seq_len
                  /\ Len(ret[k].attention_masks) = max_seq_len
                  /\ Len(ret[k].returns_to_go) = max_seq_len + 1
                  /\ trace[k].pad_length >= max_seq_len - max_ep_len
                  /\ \A j \in 1..(max_seq_len - max_ep_len) :
                        /\ ret[k].attention_masks[j] = 0
                        /\ ret[k].obs[j] = 0
                        /\ ret[k].actions[j] = 0
                        /\ ret[k].returns_to_go[j] = 0
                        /\ ret[k].t[j] = 0

\* C22 witness: with max_seq_len = 3 and max_ep_len = 1 an over-long episode
\* was added and cut, and the segment sampled from it has its one real row
\* behind two padded positions.
C22_Witness ==
    /\ Sampled
    /\ max_seq_len = 3
    /\ max_ep_len = 1
    /\ Len(ret) = 1
    /\ ret[1].attention_masks = <<0, 0, 1>>
    /\ ret[1].actions[3] # 0

\* C23 as stated: constructing a store with max_seq_len > max_ep_len is
\* detected by the constructor, which flags a warning.
C23_WarningAtConstruction ==
    (call.op = "init" /\ max_seq_len > max_ep_len) => trace # <<>>

\* C23, amended: the constructor does not compare max_seq_len with
\* max_ep_len: whatever the three values are it raises nothing and reports
\* nothing, and leaves a store with these values and no episode.
C23_NoCheckAtConstruction ==
    call.op = "init" =>
      /\ err = "none"
      /\ trace = <<>>
      /\ ret = <<>>
      /\ buffer = <<>>

\* C23 witness: a store was constructed with max_seq_len = 3 and
\* max_ep_len = 1, and nothing was raised or reported.
C23_Witness ==
    /\ call.op = "init"
    /\ max_seq_len = 3
    /\ max_ep_len = 1
    /\ err = "none"
    /\ trace = <<>>

\* The number of entries of the mask m that are 0.
RECURSIVE CountZeros(_)
CountZeros(m) ==
    IF m = <<>> THEN 0
    ELSE (IF Head(m) = 0 THEN 1 ELSE 0) + CountZeros(Tail(m))

\* C24: in every sampled segment the number p of padded positions is
\* max_seq_len - (ei - max(si, 0)); p zeros are put in front of each of the
\* five arrays; and at every real position j the five arrays speak of the
\* same episode step, the one whose index is the timestep at j: observation,
\* action and return-to-go at j are the episode's at that step and the mask
\* at j is 1.
C24_FrontPadAlignment ==
    Sampled =>
      \A k \in 1..Len(ret) :
        LET seg     == ret[k]
            loc     == trace[k]
            episode == Source(k)
            first   == IF loc.si_draw > 0 THEN loc.si_draw ELSE 0
            p       == max_seq_len - (loc.ei - first)
        IN  /\ p >= 0
            /\ CountZeros(seg.attention_masks) = p
            /\ \A j \in 1..p :
                  /\ seg.obs[j] = 0
                  /\ seg.actions[j] = 0
                  /\ seg.returns_to_go[j] = 0
                  /\ seg.t[j] = 0
                  /\ seg.attention_masks[j] = 0
            /\ \A j \in (p + 1)..max_seq_len :
                  /\ seg.attention_masks[j] = 1
                  /\ seg.t[j] = first + (j - p) - 1
                  /\ seg.obs[j] = episode.obs[seg.t[j] + 1]
                  /\ seg.actions[j] = episode.actions[seg.t[j] + 1]
                  /\ seg.returns_to_go[j] = episode.returns_to_go[seg.t[j] + 1]

\* C24 witness: a segment of one padded position in front of two real ones,
\* cut from an episode of three steps.
C24_Witness ==
    /\ Sampled
    /\ Len(ret) = 1
    /\ max_seq_len = 3
    /\ trace[1].ep_len = 3
    /\ ret[1].attention_masks = <<0, 1, 1>>
    /\ ret[1].t = <<0, 0, 1>>

\* C25: without a lock the test of line 59 and the append of line 60 are two
\* steps, and the append goes by the test as it came out earlier: a producer
\* that found the list below capacity appends to it whatever its length has
\* become, so the list grows by one at every append, also beyond capacity
\* (by at most one episode for each further producer); a state with more
\* than capacity episodes is reachable, as the witness shows.
C25_AppendGoesByStaleTest ==
    [][/\ \A t \in Producers :
            (threads[t].pc = "append" /\ threads'[t].pc = "done") =>
               buffer' = Append(buffer, threads[t].episode)
       /\ Len(buffer') <= capacity + Cardinality(Producers) - 1
       /\ Len(buffer') > Len(buffer) =>
            \E t \in Producers :
                threads[t].pc = "append" /\ threads'[t].pc = "done"]_vars

\* C25 witness: both producers found the list of capacity 1 empty before
\* either of them wrote, both appended, and the list holds two episodes.
C25_Witness ==
    /\ capacity = 1
    /\ Len(buffer) = 2
    /\ \A t \in Producers : threads[t].pc = "done"

\* C26: the router's add changes the stores of the policy ids of its batch
\* and no other: every other store has the episodes it had, in the slots
\* they were in; and every store keeps within capacity by itself, so a
\* store that is full overwrites an episode of its own.
C26_RouterIsolation ==
    [][(call = Idle /\ call'.op = "router_add") =>
          /\ \A k \in DOMAIN buffers \ DOMAIN call'.policy_batches :
                /\ k \in DOMAIN buffers'
                /\ buffers'[k].buffer = buffers[k].buffer
          /\ \A k \in DOMAIN buffers' :
                Len(buffers'[k].buffer) <= capacity
          /\ \A k \in DOMAIN call'.policy_batches \cap DOMAIN buffers :
                Len(buffers[k].buffer) = capacity =>
                  /\ Len(buffers'[k].buffer) = capacity
                  /\ \A j \in 1..Len(trace'[k]) :
                        buffers'[k].buffer[trace'[k][j].slot + 1]
                          = FirstSteps(trace'[k][j].episode, max_ep_len)]_vars

\* C26 witness: p1's full store of capacity 2 took one more episode, into
\* its slot 1, while default_policy's store, full with other episodes, was
\* not part of the call.
C26_Witness ==
    /\ call.op = "router_add"
    /\ capacity = 2
    /\ DOMAIN call.policy_batches = {"p1"}
    /\ DOMAIN buffers = {"default_policy", "p1"}
    /\ Len(buffers["default_policy"].buffer) = 2
    /\ Len(buffers["p1"].buffer) = 2
    /\ trace["p1"][1].slot = 1
    /\ buffers["p1"].buffer[1] # buffers["p1"].buffer[2]
    /\ \A i \in 1..2 :
          buffers["default_policy"].buffer[i] # buffers["p1"].buffer[2]

\* The calls that sample: of the store, of the router, and of the router
\* with the batch of one policy id taken out of the result.
SampleOps == {"sample", "router_sample", "router_sample_key"}

\* C27: a sample call, of the store or of the router and with any
\* batch_size, leaves every list of episodes as it was: the same number of
\* episodes, in the same slots, with the same contents; nothing of what the
\* call returned has been put into a store.
C27_SampleIsReadOnly ==
    [][(call = Idle /\ call'.op \in SampleOps) =>
          /\ buffer' = buffer
          /\ buffers' = buffers
          /\ UNCHANGED <<capacity, max_seq_len, max_ep_len>>]_vars

\* C27 witness: the store was sampled for two segments, cut from the two
\* different episodes it holds.
C27_Witness ==
    /\ Sampled
    /\ call.batch_size = 2
    /\ Len(buffer) = 2
    /\ buffer[1] # buffer[2]
    /\ ret[1] # ret[2]

\* The rows (observation, action, return-to-go) of the episodes buf holds.
StoredRows(buf) ==
    UNION {{<<buf[i].obs[j], buf[i].actions[j], buf[i].returns_to_go[j]>> :
               j \in 1..EnvSteps(buf[i])} : i \in 1..Len(buf)}

\* C28: a sample on a store that holds episodes raises nothing, and every
\* segment it returns is cut from one episode, the one in slot buffer_ind of
\* the store as it is at the call, with 0 <= buffer_ind < size: every real
\* row of the segment is that episode's row at the segment's timestep.  So
\* the real rows are rows of episodes the store holds now, never of one that
\* has been overwritten and is not in the store any more.
C28_SampledFromStoredEpisode ==
    (call.op = "sample" /\ buffer # <<>>) =>
      /\ err = "none"
      /\ \A k \in 1..Len(ret) :
            LET seg == ret[k]
                loc == trace[k]
            IN  /\ loc.buffer_ind >= 0
                /\ loc.buffer_ind < Len(buffer)
                /\ loc.ep_len = EnvSteps(buffer[loc.buffer_ind + 1])
                /\ \A j \in 1..max_seq_len :
                      seg.attention_masks[j] = 1 =>
                        LET episode == buffer[loc.buffer_ind + 1]
                            step    == seg.t[j] + 1
                        IN  /\ step \in 1..EnvSteps(episode)
                            /\ seg.obs[j] = episode.obs[step]
                            /\ seg.actions[j] = episode.actions[step]
                            /\ seg.returns_to_go[j] = episode.returns_to_go[step]
                            /\ <<seg.obs[j], seg.actions[j],
                                 seg.returns_to_go[j]>> \in StoredRows(buffer)

\* C28 witness: the segment was cut from slot 1 of a full store of capacity
\* 2 whose two episodes carry different episode ids, so that none of its
\* real rows is a row of the episode in slot 0.
C28_Witness ==
    /\ Sampled
    /\ capacity = 2
    /\ Len(buffer) = 2
    /\ buffer[1].eps_id[1] # buffer[2].eps_id[1]
    /\ trace[1].buffer_ind = 1
    /\ trace[1].length >= 2

\* The first position of mask m that holds a 1 (0 when there is none).
FirstReal(m) ==
    IF \E j \in 1..Len(m) : m[j] = 1
    THEN CHOOSE j \in 1..Len(m) : m[j] = 1 /\ \A i \in 1..(j - 1) : m[i] # 1
    ELSE 0

\* C29: a sampled segment with at least one padded position (a 0 in its
\* mask) has 0 as its first real timestep, and its first real row is row 0
\* of the episode; put the other way round, a segment whose real data starts
\* at an episode index > 0 has no padded position and a mask of all ones.
C29_PaddingOnlyAtEpisodeStart ==
    Sampled =>
      \A k \in 1..Len(ret) :
        LET seg   == ret[k]
            first == FirstReal(seg.attention_masks)
        IN  /\ first >= 1
            /\ CountZeros(seg.attention_masks) > 0 =>
                  /\ seg.t[first] = 0
                  /\ trace[k].si = 0
                  /\ seg.obs[first] = Source(k).obs[1]
            /\ seg.t[first] > 0 =>
                  /\ CountZeros(seg.attention_masks) = 0
                  /\ trace[k].pad_length = 0
                  /\ seg.attention_masks = Ones(max_seq_len)

\* C29 witness: an episode of three steps is cut with max_seq_len 2 from the
\* negative start index -1: one padded position, then row 0 of the episode.
\* The same episode also yields windows that start at index 1.
C29_Witness ==
    /\ Sampled
    /\ max_seq_len = 2
    /\ trace[1].ep_len = 3
    /\ trace[1].si_draw = -1
    /\ ret[1].attention_masks = <<0, 1>>
    /\ ret[1].t = <<0, 0>>
    /\ ret[1].obs[2] = Source(1).obs[1]

\* The number of entries of m that are 1.
CountOnes(m) == Len(MaskSelect(m, m))

\* C30: with max_seq_len >= 1 and stored episodes of at least one step,
\* every sampled segment has a real position: its mask is not all zeros, the
\* last entry of the mask is 1, and the number of real positions is at
\* least 1 and at most min(max_seq_len, ep_len), ep_len the length of the
\* episode the segment is cut from.
C30_AtLeastOneRealPosition ==
    (/\ Sampled
     /\ max_seq_len >= 1
     /\ \A i \in 1..Len(buffer) : EnvSteps(buffer[i]) >= 1) =>
      \A k \in 1..Len(ret) :
        LET mask == ret[k].attention_masks
        IN  /\ mask # Zeros(max_seq_len)
            /\ mask[Len(mask)] = 1
            /\ CountOnes(mask) >= 1
            /\ CountOnes(mask) <= Min(max_seq_len, EnvSteps(Source(k)))
            /\ CountOnes(mask) = trace[k].length
            /\ CountOnes(mask) + CountZeros(mask) = max_seq_len

\* C30 witness: the least case, one real position behind two padded ones,
\* cut from an episode of three steps (so min(max_seq_len, ep_len) = 3 is
\* not reached).
C30_Witness ==
    /\ Sampled
    /\ max_seq_len = 3
    /\ EnvSteps(Source(1)) = 3
    /\ ret[1].attention_masks = <<0, 0, 1>>
    /\ trace[1].length = 1

\* C31: a sample that runs unlocked, its statements interleaved with those
\* of the adds of two producers.  No step makes the list shorter, so the
\* index drawn from the length at line 88 is still in range when the slot
\* is read at line 89, and the read raises no IndexError; the read binds
\* the episode in that slot to a local; and the segment is built from that
\* local alone: observations, actions and returns-to-go of every real
\* position are that one episode's at the position's timestep, also when
\* the slot has been overwritten meanwhile.
C31_UnlockedSampleReadsOneEpisode ==
    [][/\ Len(buffer') >= Len(buffer)
       /\ \A t \in Consumers :
             /\ threads[t].pc = "read" =>
                   /\ threads[t].buffer_ind >= 0
                   /\ threads[t].buffer_ind < Len(buffer)
             /\ (threads[t].pc = "read" /\ threads'[t] # threads[t]) =>
                   /\ threads'[t].pc = "build"
                   /\ threads'[t].episode = buffer[threads[t].buffer_ind + 1]
             /\ (SampleDone(t))' => threads'[t].err # "IndexError"
             /\ (threads[t].pc = "build" /\ threads'[t] # threads[t]) =>
                   /\ SampleDone(t)'
                   /\ threads'[t].err = "none"
                   /\ threads'[t].episode = threads[t].episode
                   /\ LET seg     == threads'[t].segment
                          episode == threads[t].episode
                      IN  \A j \in 1..max_seq_len :
                            seg.attention_masks[j] = 1 =>
                              LET step == seg.t[j] + 1
                              IN  /\ step \in 1..EnvSteps(episode)
                                  /\ seg.obs[j] = episode.obs[step]
                                  /\ seg.actions[j] = episode.actions[step]
                                  /\ seg.returns_to_go[j]
                                       = episode.returns_to_go[step]]_vars

\* C31 witness: the consumer has read the episode of slot 0 of a full list
\* of capacity 1 and is about to build its segment, and a producer that
\* found the list full has since overwritten that slot with another
\* episode.
C31_Witness ==
    /\ capacity = 1
    /\ Len(buffer) = 1
    /\ \E t \in Consumers :
          /\ threads[t].pc = "build"
          /\ threads[t].buffer_ind = 0
          /\ threads[t].episode # buffer[1]
    /\ \E t \in Producers : threads[t].pc = "done"

\* The sum of the entries of rewards.
RECURSIVE SumOf(_)
SumOf(rewards) ==
    IF rewards = <<>> THEN 0 ELSE Head(rewards) + SumOf(Tail(rewards))

\* action_distribution_fn has run for the current timestep of the rollout.
ModelCalled == rollout.pc \in {"extra", "step"}

\* The return-to-go that action_distribution_fn supplied for the current
\* timestep: the last entry of RETURNS_TO_GO in obs_batch.
CurrentRtg == obs_batch.returns_to_go[1][Len(obs_batch.returns_to_go[1])][1]

\* C32: in a rollout of get_initial_input_dict followed by rounds of
\* action_distribution_fn, extra_action_out and get_next_input_dict, the
\* return-to-go supplied for the current timestep t is target_return when
\* t = 0 and otherwise the return-to-go of timestep t - 1 (the last entry of
\* the input_dict's window) minus the last reward; so it is target_return
\* minus the sum of the rewards r_0 .. r_(t-1).  extra_action_out returns
\* that value, and get_next_input_dict puts it at the end of the window.
C32_ReturnsToGoRecurrence ==
    LET step    == Len(rollout.rewards)
        window  == input_dict.returns_to_go
        earlier == SubSeq(rollout.rewards, 1, step - 1)
    IN  /\ ModelCalled =>
              /\ step = 0 => CurrentRtg = target_return
              /\ step > 0 =>
                    CurrentRtg = window[Len(window)] - rollout.rewards[step]
              /\ CurrentRtg = target_return - SumOf(rollout.rewards)
        /\ rollout.pc = "step" => extra.returns_to_go = <<CurrentRtg>>
        /\ (rollout.pc \in {"act", "extra", "step"} /\ step > 0) =>
              /\ window[Len(window)] = target_return - SumOf(earlier)
              /\ input_dict.rewards = rollout.rewards[step]

\* C32 witness: two rounds have been completed with rewards 2 and 1 under
\* target_return 5, and the model has been called for timestep 2 with the
\* return-to-go 2, on a window of max_seq_len 2.
C32_Witness ==
    /\ rollout.pc = "step"
    /\ max_seq_len = 2
    /\ target_return = 5
    /\ rollout.rewards = <<2, 1>>
    /\ input_dict.returns_to_go = <<3>>
    /\ CurrentRtg = 2
    /\ extra.returns_to_go = <<2>>

\* C33: after get_initial_input_dict and any number k of calls of
\* get_next_input_dict the input_dict holds max_seq_len observations and
\* max_seq_len - 1 actions, returns-to-go and timesteps.  The model is then
\* given max_seq_len timesteps and mask entries: p = max(max_seq_len - (k +
\* 1), 0) padded positions in front, where the mask is 0, the timestep is
\* presented as 0 and observation, action and return-to-go are 0, followed
\* by the consecutive timesteps that end at k, where the mask is 1.  That is
\* the layout _sample_single gives a training segment that it front-pads by
\* p positions.
C33_InferenceWindow ==
    /\ input_dict # <<>> =>
          /\ Len(input_dict.obs) = max_seq_len
          /\ Len(input_dict.actions) = max_seq_len - 1
          /\ Len(input_dict.returns_to_go) = max_seq_len - 1
          /\ Len(input_dict.t) = max_seq_len - 1
    /\ ModelCalled =>
          LET k      == Len(rollout.rewards)
              p      == Max(max_seq_len - (k + 1), 0)
              length == max_seq_len - p
              T      == obs_batch.t[1]
              masks  == obs_batch.attention_masks[1]
          IN  /\ Len(T) = max_seq_len
              /\ Len(masks) = max_seq_len
              /\ Len(obs_batch.obs[1]) = max_seq_len
              /\ Len(obs_batch.actions[1]) = max_seq_len
              /\ Len(obs_batch.returns_to_go[1]) = max_seq_len
              /\ T[max_seq_len] = k
              /\ \A j \in 1..p :
                    /\ masks[j] = 0
                    /\ T[j] = 0
                    /\ obs_batch.obs[1][j] = 0
                    /\ obs_batch.actions[1][j] = 0
                    /\ obs_batch.returns_to_go[1][j] = <<0>>
              /\ \A j \in (p + 1)..max_seq_len :
                    /\ masks[j] = 1
                    /\ T[j] = k - (max_seq_len - j)
              /\ masks = FrontPad(Ones(length), p)
              /\ T = FrontPad(Arange(k + 1 - length, k + 1), p)

\* C33 witness: with max_seq_len 3 the model has been called for timestep 1,
\* after one call of get_next_input_dict: one padded position, then the
\* timesteps 0 and 1.
C33_Witness ==
    /\ rollout.pc = "step"
    /\ max_seq_len = 3
    /\ Len(rollout.rewards) = 1
    /\ input_dict.t = <<-1, 0>>
    /\ obs_batch.t = <<<<0, 0, 1>>>>
    /\ obs_batch.attention_masks = <<<<0, 1, 1>>>>

====
